---------------------------- MODULE Spec2Model ----------------------------
(***************************************************************************)
(* Dense linear solvers of goph419.linalg: forward_substitution,           *)
(* backward_substitution, gauss_solve and lu_factor.                       *)
(*                                                                         *)
(* Arrays are numpy arrays: a shape tuple and a flat row-major buffer.     *)
(* Indices are 0-based as in the source.                                   *)
(*                                                                         *)
(* A float64 is the triple <<s, m, e>> of value s * m * 2^e: s is 1 or -1, *)
(* m is an odd natural number below 2^53 and e >= -1074.  The zeros are    *)
(* <<1, <<>>, 0>> and <<-1, <<>>, 0>>, the infinities <<1, <<>>, 1024>>    *)
(* and <<-1, <<>>, 1024>>, nan is <<0, <<>>, 1024>>.  The natural number m *)
(* is written in base 2^15, lowest limb first: <<3>> is 3 and              *)
(* <<21845, 10922, 21845, 170>> is 21845 + 10922 * 2^15 + 21845 * 2^30     *)
(* + 170 * 2^45 = 6004799503160661.  So 0.5 is <<1, <<1>>, -1>> and the    *)
(* float64 nearest to 1/3, 6004799503160661 / 2^54, is                     *)
(* <<1, <<21845, 10922, 21845, 170>>, -54>>.                               *)
(* Every operation returns the IEEE-754 result: the exact result rounded   *)
(* to the nearest float64, ties to the even significand.                   *)
(***************************************************************************)
EXTENDS Integers, Sequences, FiniteSets, TLC

VARIABLES op, pc, err, callerA, callerB, overwrite_a, A0, B0,
          M, w, k, p_row, q_col, b_one_d, res, exact

vars == <<op, pc, err, callerA, callerB, overwrite_a, A0, B0,
          M, w, k, p_row, q_col, b_one_d, res, exact>>

(***************************************************************************)
(* Bounds of the model.                                                    *)
(***************************************************************************)
\* largest dimension M of an input system
MaxDim == 3
\* largest number K of right-hand side columns
MaxK == 2
\* number of freely chosen cells of an input matrix (the first ones in row-major
\* order; the remaining cells are those of the identity matrix)
MaxFree == 6

\* 3 makes pivots whose multipliers are not float64 numbers (1/3)
EntryVals == {-1, 0, 3}

(***************************************************************************)
(* Natural numbers of any size: sequences of limbs, the lowest first, the  *)
(* highest not 0; <<>> is 0.                                               *)
(***************************************************************************)
\* width of a limb in bits
LimbBits == 15

Base == 2 ^ LimbBits

Max(x, y) == IF x > y THEN x ELSE y

IntAbs(n) == IF n < 0 THEN -n ELSE n

Limb0(x) == IF x = <<>> THEN 0 ELSE Head(x)

Rest(x) == IF x = <<>> THEN <<>> ELSE Tail(x)

\* x without its highest limbs that are 0
RECURSIVE Trim(_)
Trim(x) ==
    IF x = <<>> THEN x
    ELSE IF x[Len(x)] = 0 THEN Trim(SubSeq(x, 1, Len(x) - 1)) ELSE x

RECURSIVE BigOf(_)
BigOf(n) == IF n = 0 THEN <<>> ELSE <<n % Base>> \o BigOf(n \div Base)

RECURSIVE BigAddC(_, _, _)
BigAddC(x, y, c) ==
    IF x = <<>> /\ y = <<>> THEN (IF c = 0 THEN <<>> ELSE <<c>>)
    ELSE LET s == Limb0(x) + Limb0(y) + c
         IN <<s % Base>> \o BigAddC(Rest(x), Rest(y), s \div Base)

BigAdd(x, y) == BigAddC(x, y, 0)

\* x - y - b for x >= y + b
RECURSIVE BigSubB(_, _, _)
BigSubB(x, y, b) ==
    IF x = <<>> THEN <<>>
    ELSE LET d == Head(x) - Limb0(y) - b
         IN <<IF d < 0 THEN d + Base ELSE d>>
                \o BigSubB(Tail(x), Rest(y), IF d < 0 THEN 1 ELSE 0)

BigSub(x, y) == Trim(BigSubB(x, y, 0))

\* -1, 0, 1 as x <, =, > y on the limbs n, n-1, ..., 1
RECURSIVE BigCmpAt(_, _, _)
BigCmpAt(x, y, n) ==
    IF n = 0 THEN 0
    ELSE IF x[n] < y[n] THEN -1
    ELSE IF x[n] > y[n] THEN 1
    ELSE BigCmpAt(x, y, n - 1)

BigCmp(x, y) ==
    IF Len(x) < Len(y) THEN -1
    ELSE IF Len(x) > Len(y) THEN 1
    ELSE BigCmpAt(x, y, Len(x))

\* x * c + carry for a limb c
RECURSIVE BigMulLimb(_, _, _)
BigMulLimb(x, c, carry) ==
    IF x = <<>> THEN (IF carry = 0 THEN <<>> ELSE <<carry>>)
    ELSE LET t == Head(x) * c + carry
         IN <<t % Base>> \o BigMulLimb(Tail(x), c, t \div Base)

\* x * Base^n
ShiftLimbs(x, n) == IF x = <<>> THEN x ELSE [i \in 1..n |-> 0] \o x

RECURSIVE BigMul(_, _)
BigMul(x, y) ==
    IF y = <<>> \/ x = <<>> THEN <<>>
    ELSE BigAdd(Trim(BigMulLimb(x, Head(y), 0)), ShiftLimbs(BigMul(x, Tail(y)), 1))

\* x * 2^s
BigShl(x, s) ==
    IF s = 0 THEN x
    ELSE ShiftLimbs(Trim(BigMulLimb(x, 2 ^ (s % LimbBits), 0)), s \div LimbBits)

\* floor(x / 2^s)
BigShr(x, s) ==
    LET drop == s \div LimbBits
        r == s % LimbBits
        n == Len(x) - drop
        at(i) == IF i <= Len(x) THEN x[i] ELSE 0
    IN IF s = 0 THEN x
       ELSE IF n <= 0 THEN <<>>
       ELSE Trim([i \in 1..n |->
                    (at(i + drop) \div (2 ^ r))
                        + (at(i + drop + 1) % (2 ^ r)) * (2 ^ (LimbBits - r))])

\* bit i of x, bit 0 the lowest
BigBit(x, i) ==
    LET n == i \div LimbBits + 1
    IN IF n > Len(x) THEN 0 ELSE (x[n] \div (2 ^ (i % LimbBits))) % 2

\* x mod 2^s = 0
LowBitsZero(x, s) ==
    /\ \A i \in 1..Len(x) : i <= s \div LimbBits => x[i] = 0
    /\ (s \div LimbBits + 1 <= Len(x))
          => x[s \div LimbBits + 1] % (2 ^ (s % LimbBits)) = 0

\* number of bits of the limb n
LimbLen(n) == CHOOSE i \in 0..LimbBits : n < 2 ^ i /\ (i = 0 \/ n >= 2 ^ (i - 1))

\* number of bits of x
BitLen(x) == IF x = <<>> THEN 0 ELSE LimbBits * (Len(x) - 1) + LimbLen(x[Len(x)])

\* number of zero bits below the lowest set bit of x # 0
RECURSIVE LowZeros(_)
LowZeros(x) ==
    IF Head(x) = 0 THEN LimbBits + LowZeros(Tail(x))
    ELSE CHOOSE i \in 0..(LimbBits - 1) : Head(x) % (2 ^ (i + 1)) = 2 ^ i

(***************************************************************************)
(* float64 values and their arithmetic.                                    *)
(***************************************************************************)
\* bits of a float64 significand
MantBits == 53
\* exponent of the smallest float64 above 0, 2^-1074
MinExp == -1074
\* 2^1024 is the first power of two above every finite float64
ExpInf == 1024

NaN == <<0, <<>>, ExpInf>>
PosInf == <<1, <<>>, ExpInf>>
Zero == <<1, <<>>, 0>>
One == <<1, <<1>>, 0>>

IsNaN(v) == v[1] = 0
IsInf(v) == v[1] # 0 /\ v[3] = ExpInf
IsZero(v) == v[1] # 0 /\ v[2] = <<>> /\ v[3] # ExpInf

\* s * m * 2^e with the significand made odd: the value itself, not rounded
Exact(s, m, e) ==
    IF m = <<>> THEN <<s, <<>>, 0>>
    ELSE LET z == LowZeros(m) IN <<s, BigShr(m, z), e + z>>

\* the float64 nearest to s * m * 2^e, ties to the even significand; inf from
\* 2^1024 on
Round(s, m, e) ==
    IF m = <<>> THEN <<s, <<>>, 0>>
    ELSE LET drop == Max(BitLen(m) - MantBits, MinExp - e)
             q == BigShr(m, drop)
             up == /\ BigBit(m, drop - 1) = 1
                   /\ (~LowBitsZero(m, drop - 1) \/ BigBit(q, 0) = 1)
             r == IF drop <= 0 THEN Exact(s, m, e)
                  ELSE Exact(s, IF up THEN BigAdd(q, <<1>>) ELSE q, e + drop)
         IN IF BitLen(r[2]) + r[3] > ExpInf THEN <<s, <<>>, ExpInf>> ELSE r

\* the float64 of the integer n
Float(n) == Round(IF n < 0 THEN -1 ELSE 1, BigOf(IntAbs(n)), 0)

Neg(v) == <<-v[1], v[2], v[3]>>

FAbs(v) == <<IntAbs(v[1]), v[2], v[3]>>

\* one more than the position of the highest bit of a finite v # 0
Top(v) == BitLen(v[2]) + v[3]

\* -1, 0, 1 as |u| <, =, > |v| for finite u, v # 0
CmpMag(u, v) ==
    IF Top(u) < Top(v) THEN -1
    ELSE IF Top(u) > Top(v) THEN 1
    ELSE LET e == IF u[3] < v[3] THEN u[3] ELSE v[3]
         IN BigCmp(BigShl(u[2], u[3] - e), BigShl(v[2], v[3] - e))

\* the sum s * m * 2^e of finite u, v # 0, not rounded
SumNear(u, v) ==
    LET e == IF u[3] < v[3] THEN u[3] ELSE v[3]
        mu == BigShl(u[2], u[3] - e)
        mv == BigShl(v[2], v[3] - e)
        c == BigCmp(mu, mv)
    IN IF u[1] = v[1] THEN <<u[1], BigAdd(mu, mv), e>>
       ELSE IF c = 0 THEN <<1, <<>>, 0>>
       ELSE IF c > 0 THEN <<u[1], BigSub(mu, mv), e>>
       ELSE <<v[1], BigSub(mv, mu), e>>

\* a value of the sign of v, so far below u that u + v and u + Tiny(u, v)
\* round alike
Tiny(u, v) == <<v[1], <<1>>, Top(u) - 64>>

\* u + v for finite u, v # 0, before the rounding
SumFinite(u, v) ==
    IF Top(u) - Top(v) > 64 THEN SumNear(u, Tiny(u, v))
    ELSE IF Top(v) - Top(u) > 64 THEN SumNear(Tiny(v, u), v)
    ELSE SumNear(u, v)

\* u * v for finite u, v # 0, before the rounding
ProductFinite(u, v) == <<u[1] * v[1], BigMul(u[2], v[2]), u[3] + v[3]>>

\* the largest q with d * q <= r, at most the estimate qhat
RECURSIVE FixDigit(_, _, _)
FixDigit(r, d, qhat) ==
    IF BigCmp(Trim(BigMulLimb(d, qhat, 0)), r) > 0 THEN FixDigit(r, d, qhat - 1)
    ELSE qhat

\* floor(r / d) for r < d * Base and a d of four limbs, the highest >= Base / 2
Digit(r, d) ==
    LET at(i) == IF i <= Len(r) THEN r[i] ELSE 0
        est == (at(5) * Base + at(4)) \div d[4]
    IN FixDigit(r, d, IF est > Base - 1 THEN Base - 1 ELSE est)

\* n more limbs of the quotient of r by d, below the limbs q:
\* <<quotient, remainder>>
RECURSIVE DivLoop(_, _, _, _)
DivLoop(r, d, q, n) ==
    IF n = 0 THEN <<q, r>>
    ELSE LET rb == ShiftLimbs(r, 1)
             dg == Digit(rb, d)
         IN DivLoop(BigSub(rb, Trim(BigMulLimb(d, dg, 0))), d, <<dg>> \o q, n - 1)

\* u / v for finite u, v # 0, before the rounding: the first 60 or 61 bits of
\* the quotient, and one more bit that is 1 when the division leaves a remainder
QuotientFinite(u, v) ==
    LET su == 4 * LimbBits - BitLen(u[2])
        sv == 4 * LimbBits - BitLen(v[2])
        n == BigShl(u[2], su)
        d == BigShl(v[2], sv)
        q0 == IF BigCmp(n, d) >= 0 THEN 1 ELSE 0
        qr == DivLoop(IF q0 = 1 THEN BigSub(n, d) ELSE n, d, <<q0>>, 4)
        sticky == IF qr[2] = <<>> THEN 0 ELSE 1
    IN <<u[1] * v[1], Trim(BigMulLimb(Trim(qr[1]), 2, sticky)),
         (u[3] - su) - (v[3] - sv) - 4 * LimbBits - 1>>

RoundOf(t) == Round(t[1], t[2], t[3])

FAdd(u, v) ==
    IF IsNaN(u) \/ IsNaN(v) THEN NaN
    ELSE IF IsInf(u) THEN (IF IsInf(v) /\ v # u THEN NaN ELSE u)
    ELSE IF IsInf(v) THEN v
    ELSE IF IsZero(u) /\ IsZero(v) THEN (IF u = v THEN u ELSE Zero)
    ELSE IF IsZero(u) THEN v
    ELSE IF IsZero(v) THEN u
    ELSE RoundOf(SumFinite(u, v))

FSub(u, v) == FAdd(u, Neg(v))

FMul(u, v) ==
    IF IsNaN(u) \/ IsNaN(v) THEN NaN
    ELSE IF IsInf(u) \/ IsInf(v)
         THEN (IF IsZero(u) \/ IsZero(v) THEN NaN ELSE <<u[1] * v[1], <<>>, ExpInf>>)
    ELSE IF IsZero(u) \/ IsZero(v) THEN <<u[1] * v[1], <<>>, 0>>
    ELSE RoundOf(ProductFinite(u, v))

FDiv(u, v) ==
    IF IsNaN(u) \/ IsNaN(v) THEN NaN
    ELSE IF IsInf(u) THEN (IF IsInf(v) THEN NaN ELSE <<u[1] * v[1], <<>>, ExpInf>>)
    ELSE IF IsInf(v) THEN <<u[1] * v[1], <<>>, 0>>
    ELSE IF IsZero(v) THEN (IF IsZero(u) THEN NaN ELSE <<u[1] * v[1], <<>>, ExpInf>>)
    ELSE IF IsZero(u) THEN <<u[1] * v[1], <<>>, 0>>
    ELSE RoundOf(QuotientFinite(u, v))

\* u == v: nan equals nothing, 0.0 equals -0.0
FEq(u, v) ==
    /\ ~IsNaN(u) /\ ~IsNaN(v)
    /\ (u = v \/ (IsZero(u) /\ IsZero(v)))

\* u <= v for values that are not nan
FLeq(u, v) ==
    IF FEq(u, v) THEN TRUE
    ELSE IF IsInf(u) THEN u[1] < 0
    ELSE IF IsInf(v) THEN v[1] > 0
    ELSE IF IsZero(u) THEN v[1] > 0
    ELSE IF IsZero(v) THEN u[1] < 0
    ELSE IF u[1] # v[1] THEN u[1] < v[1]
    ELSE IF u[1] > 0 THEN CmpMag(u, v) <= 0
    ELSE CmpMag(u, v) >= 0

\* a[lo..hi-1] @ x[lo..hi-1]: the products are summed left to right from 0.0
RECURSIVE Dot(_, _, _, _)
Dot(a, x, lo, hi) ==
    IF hi <= lo THEN Zero
    ELSE FAdd(Dot(a, x, lo, hi - 1), FMul(a[hi - 1], x[hi - 1]))

(***************************************************************************)
(* numpy arrays: shape and flat row-major data.                            *)
(***************************************************************************)
RECURSIVE Prod(_)
Prod(s) == IF s = <<>> THEN 1 ELSE Head(s) * Prod(Tail(s))

Array(shape, data) == [shape |-> shape, data |-> data]

NoArray == Array(<<>>, <<>>)

\* the (r, c) array as rows of columns
ToMatrix(arr) ==
    LET r == arr.shape[1]
        c == arr.shape[2]
    IN [i \in 0..(r - 1) |-> [j \in 0..(c - 1) |-> arr.data[i * c + j + 1]]]

\* np.reshape(b, (M, 1)) of a 1-D array
ToColumn(arr) ==
    [i \in 0..(arr.shape[1] - 1) |-> [j \in 0..0 |-> arr.data[i + 1]]]

FromMatrix(m, r, c) ==
    Array(<<r, c>>, [n \in 1..(r * c) |-> m[(n - 1) \div c][(n - 1) % c]])

\* x.flatten() of an (r, c) array
Flatten(m, r, c) ==
    Array(<<r * c>>, [n \in 1..(r * c) |-> m[(n - 1) \div c][(n - 1) % c]])

(***************************************************************************)
(* Input validation at entry of every routine.                             *)
(***************************************************************************)
\* a_shape[0] is read before the dimension is checked
CheckA(shape) ==
    IF Len(shape) = 0 THEN "IndexError"
    ELSE IF Len(shape) # 2 THEN "ValueError"
    ELSE IF shape[1] # shape[2] THEN "ValueError"
    ELSE "ok"

CheckB(bshape, m) ==
    IF Len(bshape) < 1 \/ Len(bshape) > 2 THEN "ValueError"
    ELSE IF m # bshape[1] THEN "ValueError"
    ELSE "ok"

CheckAB(ashape, bshape) ==
    IF CheckA(ashape) # "ok" THEN CheckA(ashape)
    ELSE CheckB(bshape, ashape[1])

(***************************************************************************)
(* The elimination kernel shared by gauss_solve and lu_factor.             *)
(***************************************************************************)
Block(kk, m) == (kk..(m - 1)) \X (kk..(m - 1))

\* mutant: np.max(blk), the absolute value forgotten
BlockMaxSigned(a, kk, m) ==
    IF \E ij \in Block(kk, m) : IsNaN(a[ij[1]][ij[2]]) THEN NaN
    ELSE LET vals == {a[ij[1]][ij[2]] : ij \in Block(kk, m)}
         IN CHOOSE v \in vals : \A u \in vals : FLeq(u, v)

\* np.max(np.abs(blk)): nan as soon as one entry is nan
BlockMax(a, kk, m) ==
    IF \E ij \in Block(kk, m) : IsNaN(a[ij[1]][ij[2]]) THEN NaN
    ELSE LET absvals == {FAbs(a[ij[1]][ij[2]]) : ij \in Block(kk, m)}
         IN CHOOSE v \in absvals : \A u \in absvals : FLeq(u, v)

\* np.argwhere(np.abs(blk) == np.max(np.abs(blk))): positions in row-major
\* order, as offsets into the block; nothing equals nan
ArgWhere(a, kk, m) ==
    LET mx == BlockMax(a, kk, m)
    IN IF IsNaN(mx) THEN {}
       ELSE {<<ij[1] - kk, ij[2] - kk>> :
                ij \in {xy \in Block(kk, m) : FEq(FAbs(a[xy[1]][xy[2]]), mx)}}

\* argwhere(...)[0, :]
FirstOf(hits) ==
    CHOOSE h \in hits : \A g \in hits :
        h[1] < g[1] \/ (h[1] = g[1] /\ h[2] <= g[2])

\* mutant: a[(i, j), i:] = a[(j, i), i:], the stored multipliers stay behind
SwapRowsTrailing(a, i, j) ==
    [r \in DOMAIN a |->
        [c \in DOMAIN a[r] |->
            IF c < i THEN a[r][c]
            ELSE IF r = i THEN a[j][c] ELSE IF r = j THEN a[i][c] ELSE a[r][c]]]

\* a[(i, j), :] = a[(j, i), :]
SwapRows(a, i, j) ==
    [r \in DOMAIN a |-> IF r = i THEN a[j] ELSE IF r = j THEN a[i] ELSE a[r]]

\* a[:, (i, j)] = a[:, (j, i)]
SwapCols(a, i, j) ==
    [r \in DOMAIN a |->
        [c \in DOMAIN a[r] |->
            IF c = i THEN a[r][j] ELSE IF c = j THEN a[r][i] ELSE a[r][c]]]

\* mutant: t[i] = t[j]; t[j] = t[i], the first assignment lost
SwapPermSequential(t, i, j) ==
    [n \in DOMAIN t |-> IF n = i THEN t[j] ELSE t[n]]

\* t[i], t[j] = t[j], t[i]
SwapPerm(t, i, j) ==
    [n \in DOMAIN t |-> IF n = i THEN t[j] ELSE IF n = j THEN t[i] ELSE t[n]]

\* the row pivot of step kk: swap when the offset is not 0
PivotRows(a, kk, hit) == IF hit[1] # 0 THEN SwapRows(a, kk, kk + hit[1]) ELSE a

PivotCols(a, kk, hit) == IF hit[2] # 0 THEN SwapCols(a, kk, kk + hit[2]) ELSE a

PivotPermRow(t, kk, hit) == IF hit[1] # 0 THEN SwapPerm(t, kk, kk + hit[1]) ELSE t

PivotPermCol(t, kk, hit) == IF hit[2] # 0 THEN SwapPerm(t, kk, kk + hit[2]) ELSE t

\* a[kp1:, k] /= a[k, k]
Multipliers(a, kk) ==
    [r \in DOMAIN a |->
        [c \in DOMAIN a[r] |->
            IF r > kk /\ c = kk THEN FDiv(a[r][kk], a[kk][kk]) ELSE a[r][c]]]

\* entry (r, c) of a[kp1:, k:kp1] @ a[k:kp1, kp1:]: a sum of one product, taken
\* from 0.0 as every sum of @ is, so that a product -0.0 gives 0.0
Outer(a, kk, r, c) == FAdd(Zero, FMul(a[r][kk], a[kk][c]))

\* mutant: a[kp1:, :] -= a[kp1:, k:kp1] @ a[k:kp1, :] on every other column
RankOneAllColumns(a, kk) ==
    [r \in DOMAIN a |->
        [c \in DOMAIN a[r] |->
            IF r > kk /\ c # kk
            THEN FSub(a[r][c], Outer(a, kk, r, c))
            ELSE a[r][c]]]

\* a[kp1:, kp1:] -= a[kp1:, k:kp1] @ a[k:kp1, kp1:]
RankOne(a, kk) ==
    [r \in DOMAIN a |->
        [c \in DOMAIN a[r] |->
            IF r > kk /\ c > kk
            THEN FSub(a[r][c], Outer(a, kk, r, c))
            ELSE a[r][c]]]

Eliminate(a, kk) == RankOne(Multipliers(a, kk), kk)

(***************************************************************************)
(* Whether an operation rounds: its float64 result is not its exact        *)
(* result.  This is what the variable exact records of a call; no routine  *)
(* reads it.                                                               *)
(***************************************************************************)
Finite(v) == ~IsNaN(v) /\ ~IsInf(v) /\ ~IsZero(v)

Rounds(t) == RoundOf(t) # Exact(t[1], t[2], t[3])

AddRounds(u, v) == Finite(u) /\ Finite(v) /\ Rounds(SumFinite(u, v))

SubRounds(u, v) == AddRounds(u, Neg(v))

MulRounds(u, v) == Finite(u) /\ Finite(v) /\ Rounds(ProductFinite(u, v))

DivRounds(u, v) == Finite(u) /\ Finite(v) /\ Rounds(QuotientFinite(u, v))

\* some operation of Eliminate(a, kk) rounds
EliminateRounds(a, kk) ==
    \E r \in DOMAIN a :
        /\ r > kk
        /\ \/ DivRounds(a[r][kk], a[kk][kk])
           \/ \E c \in DOMAIN a[r] :
                 /\ c > kk
                 /\ LET mult == FDiv(a[r][kk], a[kk][kk])
                    IN \/ MulRounds(mult, a[kk][c])
                       \/ SubRounds(a[r][c], FAdd(Zero, FMul(mult, a[kk][c])))

RECURSIVE DotRounds(_, _, _, _)
DotRounds(a, x, lo, hi) ==
    /\ hi > lo
    /\ \/ DotRounds(a, x, lo, hi - 1)
       \/ MulRounds(a[hi - 1], x[hi - 1])
       \/ AddRounds(Dot(a, x, lo, hi - 1), FMul(a[hi - 1], x[hi - 1]))

\* some operation rounds in the rows of a substitution that returned x: row r
\* of a forward substitution takes its dot product over the columns 0..r-1,
\* of a backward substitution over the columns r+1..m-1, and the row m-1 that
\* a backward substitution solves first over the whole row a[-1, 0:] while x
\* is still np.zeros_like(b)
SolveRounds(a, b, x, m, forward) ==
    \E r \in 0..(m - 1) : \E c \in DOMAIN b[r] :
        LET first == ~forward /\ r = m - 1
            xc == [i \in DOMAIN x |-> IF first THEN Zero ELSE x[i][c]]
            lo == IF forward \/ first THEN 0 ELSE r + 1
            hi == IF forward THEN r ELSE m
            d == Dot(a[r], xc, lo, hi)
        IN \/ DotRounds(a[r], xc, lo, hi)
           \/ SubRounds(b[r][c], d)
           \/ DivRounds(FSub(b[r][c], d), a[r][r])

Arange(m) == [i \in 0..(m - 1) |-> i]

(***************************************************************************)
(* lu_factor(a, overwrite_a)                                               *)
(***************************************************************************)
\* mutant: lu = a, the copy forgotten
AliasedAlways(ow) == TRUE

\* lu = a if overwrite_a else np.array(a, dtype="float64")
Aliased(ow) == ow

\* what the caller sees in its own a while lu is the working buffer
CallerView(a, lu, m, ow) == IF Aliased(ow) THEN FromMatrix(lu, m, m) ELSE a

Raise(e) ==
    /\ pc' = "error"
    /\ err' = e

LuEnter ==
    /\ op = "lu"
    /\ pc = "call"
    /\ IF CheckA(callerA.shape) # "ok"
       THEN /\ Raise(CheckA(callerA.shape))
            /\ UNCHANGED <<callerA, M, w, k, p_row, q_col, res>>
       ELSE /\ M' = callerA.shape[1]
            /\ w' = ToMatrix(callerA)
            /\ p_row' = Arange(M')
            /\ q_col' = Arange(M')
            /\ k' = 0
            /\ callerA' = CallerView(callerA, w', M', overwrite_a)
            /\ pc' = IF M' = 0 THEN "done" ELSE "pivot"
            /\ res' = IF M' = 0 THEN FromMatrix(w', M', M') ELSE res
            /\ UNCHANGED err
    /\ UNCHANGED <<op, callerB, overwrite_a, A0, B0, b_one_d, exact>>

LuPivot ==
    /\ op = "lu"
    /\ pc = "pivot"
    /\ LET hits == ArgWhere(w, k, M)
       IN IF hits = {}
          THEN /\ Raise("IndexError")
               /\ UNCHANGED <<callerA, w, p_row, q_col>>
          ELSE LET hit == FirstOf(hits)
               IN /\ w' = PivotCols(PivotRows(w, k, hit), k, hit)
                  /\ p_row' = PivotPermRow(p_row, k, hit)
                  /\ q_col' = PivotPermCol(q_col, k, hit)
                  /\ callerA' = CallerView(callerA, w', M, overwrite_a)
                  /\ pc' = "elim"
                  /\ UNCHANGED err
    /\ UNCHANGED <<op, callerB, overwrite_a, A0, B0, M, k, b_one_d, res, exact>>

LuEliminate ==
    /\ op = "lu"
    /\ pc = "elim"
    /\ w' = Eliminate(w, k)
    /\ callerA' = CallerView(callerA, w', M, overwrite_a)
    /\ k' = k + 1
    /\ pc' = IF k' = M THEN "done" ELSE "pivot"
    /\ res' = IF k' = M THEN FromMatrix(w', M, M) ELSE res
    /\ exact' = (exact /\ ~EliminateRounds(w, k))
    /\ UNCHANGED <<op, err, callerB, overwrite_a, A0, B0, M, p_row, q_col, b_one_d>>

(***************************************************************************)
(* forward_substitution(a, b) and backward_substitution(a, b)              *)
(***************************************************************************)
\* np.zeros_like(b)
ZerosLike(b) == [i \in DOMAIN b |-> [c \in DOMAIN b[i] |-> Zero]]

Column(x, c) == [i \in DOMAIN x |-> x[i][c]]

\* the start of the slice a[k, start:] for a start <= 0
SliceStart(start, m) == IF start < 0 THEN m + start ELSE start

\* x[k, :] = (b[k, :] - a[k, :k] @ x[:k, :]) / a[k, k]
ForwardRow(a, b, x, kk) ==
    [c \in DOMAIN b[kk] |->
        FDiv(FSub(b[kk][c], Dot(a[kk], Column(x, c), 0, kk)), a[kk][kk])]

\* for k, a_row in enumerate(a)
RECURSIVE ForwardLoop(_, _, _, _, _)
ForwardLoop(a, b, x, kk, m) ==
    IF kk >= m THEN x
    ELSE ForwardLoop(a, b, [x EXCEPT ![kk] = ForwardRow(a, b, x, kk)], kk + 1, m)

\* x[k, :] = (b[k, :] - a[k, (k + 1):] @ x[(k + 1):, :]) / a[k, k], k < 0
BackwardRow(a, b, x, kneg, m) ==
    LET r == m + kneg
    IN [c \in DOMAIN b[r] |->
          FDiv(FSub(b[r][c],
                    Dot(a[r], Column(x, c), SliceStart(kneg + 1, m), m)),
               a[r][r])]

\* for k in range(-1, -(M + 1), -1)
RECURSIVE BackwardLoop(_, _, _, _, _)
BackwardLoop(a, b, x, kneg, m) ==
    IF kneg < -m THEN x
    ELSE BackwardLoop(a, b,
                      [x EXCEPT ![m + kneg] = BackwardRow(a, b, x, kneg, m)],
                      kneg - 1, m)

ForwardSolve(a, b, m) == ForwardLoop(a, b, ZerosLike(b), 0, m)

BackwardSolve(a, b, m) == BackwardLoop(a, b, ZerosLike(b), -1, m)

\* b as (M, K): a 1-D b is reshaped to (M, 1)
RhsMatrix(barr) == IF Len(barr.shape) = 1 THEN ToColumn(barr) ELSE ToMatrix(barr)

RhsCols(barr) == IF Len(barr.shape) = 1 THEN 1 ELSE barr.shape[2]

\* the output has the shape of b
TidyUp(x, m, kcols, oned) ==
    IF oned THEN Flatten(x, m, kcols) ELSE FromMatrix(x, m, kcols)

ForwardSubstitution ==
    /\ op = "forward"
    /\ pc = "call"
    /\ IF CheckAB(callerA.shape, callerB.shape) # "ok"
       THEN /\ Raise(CheckAB(callerA.shape, callerB.shape))
            /\ UNCHANGED <<M, b_one_d, res, exact>>
       ELSE LET a == ToMatrix(callerA)
                b == RhsMatrix(callerB)
                x == ForwardSolve(a, b, callerA.shape[1])
            IN /\ M' = callerA.shape[1]
               /\ b_one_d' = (Len(callerB.shape) = 1)
               /\ res' = TidyUp(x, M', RhsCols(callerB), b_one_d')
               /\ exact' = (exact /\ ~SolveRounds(a, b, x, M', TRUE))
               /\ pc' = "done"
               /\ UNCHANGED err
    /\ UNCHANGED <<op, callerA, callerB, overwrite_a, A0, B0, w, k, p_row, q_col>>

BackwardSubstitution ==
    /\ op = "backward"
    /\ pc = "call"
    /\ IF CheckAB(callerA.shape, callerB.shape) # "ok"
       THEN /\ Raise(CheckAB(callerA.shape, callerB.shape))
            /\ UNCHANGED <<M, b_one_d, res, exact>>
       ELSE LET a == ToMatrix(callerA)
                b == RhsMatrix(callerB)
                x == BackwardSolve(a, b, callerA.shape[1])
            IN /\ M' = callerA.shape[1]
               /\ b_one_d' = (Len(callerB.shape) = 1)
               /\ res' = TidyUp(x, M', RhsCols(callerB), b_one_d')
               /\ exact' = (exact /\ ~SolveRounds(a, b, x, M', FALSE))
               /\ pc' = "done"
               /\ UNCHANGED err
    /\ UNCHANGED <<op, callerA, callerB, overwrite_a, A0, B0, w, k, p_row, q_col>>

(***************************************************************************)
(* gauss_solve(a, b)                                                       *)
(***************************************************************************)
\* np.hstack([a, b]) of an (M, M) and an (M, K) array
HStack(a, b, m, kcols) ==
    [i \in 0..(m - 1) |->
        [j \in 0..(m + kcols - 1) |-> IF j < m THEN a[i][j] ELSE b[i][j - m]]]

\* aug[:, :M]
LeftBlock(aug, m) == [i \in DOMAIN aug |-> [j \in 0..(m - 1) |-> aug[i][j]]]

\* aug[:, M:]
RightBlock(aug, m, kcols) ==
    [i \in DOMAIN aug |-> [j \in 0..(kcols - 1) |-> aug[i][m + j]]]

\* x[q_col, :]
TakeRows(x, q) == [i \in DOMAIN q |-> x[q[i]]]

GaussEnter ==
    /\ op = "gauss"
    /\ pc = "call"
    /\ IF CheckAB(callerA.shape, callerB.shape) # "ok"
       THEN /\ Raise(CheckAB(callerA.shape, callerB.shape))
            /\ UNCHANGED <<M, b_one_d, w, k, p_row, q_col>>
       ELSE /\ M' = callerA.shape[1]
            /\ b_one_d' = (Len(callerB.shape) = 1)
            /\ IF b_one_d'
               THEN \* hstack of a 2-D and a 1-D array
                    /\ Raise("ValueError")
                    /\ UNCHANGED <<w, k, p_row, q_col>>
               ELSE /\ w' = HStack(ToMatrix(callerA), ToMatrix(callerB),
                                   M', callerB.shape[2])
                    /\ p_row' = Arange(M')
                    /\ q_col' = Arange(M')
                    /\ k' = 0
                    /\ pc' = IF M' = 0 THEN "backsub" ELSE "pivot"
                    /\ UNCHANGED err
    /\ UNCHANGED <<op, callerA, callerB, overwrite_a, A0, B0, res, exact>>

GaussPivot ==
    /\ op = "gauss"
    /\ pc = "pivot"
    /\ LET hits == ArgWhere(w, k, M)
       IN IF hits = {}
          THEN /\ Raise("IndexError")
               /\ UNCHANGED <<w, p_row, q_col>>
          ELSE LET hit == FirstOf(hits)
               IN /\ w' = PivotCols(PivotRows(w, k, hit), k, hit)
                  /\ p_row' = PivotPermRow(p_row, k, hit)
                  /\ q_col' = PivotPermCol(q_col, k, hit)
                  /\ pc' = "elim"
                  /\ UNCHANGED err
    /\ UNCHANGED <<op, callerA, callerB, overwrite_a, A0, B0, M, k, b_one_d, res,
                   exact>>

GaussEliminate ==
    /\ op = "gauss"
    /\ pc = "elim"
    /\ w' = Eliminate(w, k)
    /\ k' = k + 1
    /\ pc' = IF k' = M THEN "backsub" ELSE "pivot"
    /\ exact' = (exact /\ ~EliminateRounds(w, k))
    /\ UNCHANGED <<op, err, callerA, callerB, overwrite_a, A0, B0, M, p_row, q_col,
                   b_one_d, res>>

GaussBackSubstitute ==
    /\ op = "gauss"
    /\ pc = "backsub"
    /\ LET kcols == callerB.shape[2]
           a == LeftBlock(w, M)
           b == RightBlock(w, M, kcols)
           x == BackwardSolve(a, b, M)
       IN /\ res' = TidyUp(TakeRows(x, q_col), M, kcols, b_one_d)
          /\ exact' = (exact /\ ~SolveRounds(a, b, x, M, FALSE))
    /\ pc' = "done"
    /\ UNCHANGED <<op, err, callerA, callerB, overwrite_a, A0, B0, M, w, k, p_row,
                   q_col, b_one_d>>

(***************************************************************************)
(* Inputs.                                                                 *)
(***************************************************************************)
Floats == {Float(n) : n \in EntryVals}

Min(x, y) == IF x < y THEN x ELSE y

IdentityCell(n, m) == IF (n - 1) \div m = (n - 1) % m THEN One ELSE Zero

\* the (m, m) arrays whose free cells hold entries among Floats
SquareArrays(m) ==
    {Array(<<m, m>>, [n \in 1..(m * m) |-> IF n <= MaxFree THEN d[n]
                                                           ELSE IdentityCell(n, m)]) :
        d \in [1..Min(m * m, MaxFree) -> Floats]}

\* right-hand sides: entries of distinct magnitudes and mixed signs, larger than
\* the coefficients
RhsEntry(n) == Float(IF n % 2 = 0 THEN n + 1 ELSE -(n + 1))

\* a 1-D b, a single column and MaxK columns
RhsArrays(m) ==
    {Array(<<m>>, [n \in 1..m |-> RhsEntry(n)])}
    \cup {Array(<<m, kc>>, [n \in 1..(m * kc) |-> RhsEntry(n)]) : kc \in {1, MaxK}}

\* triangular systems: a nonzero diagonal (one value on the even rows, one on
\* the odd rows), the solver's own triangle, and one value stored in all of the
\* other triangle
DiagVals == {Float(1), Float(-3)}
OwnVals == {Float(-1), Float(2)}
OtherVals == {Zero, Float(7), NaN, PosInf}

StrictUpper(m) == {ij \in (0..(m - 1)) \X (0..(m - 1)) : ij[1] < ij[2]}

TriangularArray(m, lower, dg, own, other) ==
    Array(<<m, m>>,
          [n \in 1..(m * m) |->
              LET i == (n - 1) \div m
                  j == (n - 1) % m
              IN IF i = j THEN dg[i]
                 ELSE IF (lower /\ j < i) \/ (~lower /\ j > i)
                      THEN own[IF i < j THEN <<i, j>> ELSE <<j, i>>]
                      ELSE other])

\* arrays of every dimension, to exercise the validation
AShapes == {<<>>, <<2>>, <<0, 0>>, <<1, 1>>, <<2, 2>>, <<1, 2>>, <<2, 1>>, <<2, 2, 1>>}
BShapes == {<<>>, <<0>>, <<1>>, <<2>>, <<3>>, <<0, 1>>, <<1, 2>>, <<2, 1>>, <<2, 2>>,
            <<2, 1, 1>>}

Ramp(shape) == Array(shape, [n \in 1..Prod(shape) |-> Float(n)])

InitCommon ==
    /\ pc = "call"
    /\ err = "none"
    /\ A0 = callerA
    /\ B0 = callerB
    /\ M = 0
    /\ w = <<>>
    /\ k = 0
    /\ p_row = <<>>
    /\ q_col = <<>>
    /\ b_one_d = FALSE
    /\ res = NoArray
    /\ exact = TRUE

InitLu ==
    /\ op = "lu"
    /\ \E m \in 1..MaxDim : callerA \in SquareArrays(m)
    /\ callerB = NoArray
    /\ overwrite_a \in BOOLEAN
    /\ InitCommon

InitGauss ==
    /\ op = "gauss"
    /\ \E m \in 1..MaxDim : callerA \in SquareArrays(m)
    /\ callerB \in RhsArrays(callerA.shape[1])
    /\ overwrite_a = FALSE
    /\ InitCommon

InitTri ==
    /\ op \in {"forward", "backward"}
    /\ \E m \in 1..MaxDim :
          \E d \in DiagVals \X DiagVals, own \in [StrictUpper(m) -> OwnVals],
             other \in OtherVals :
              callerA = TriangularArray(m, op = "forward",
                                        [i \in 0..(m - 1) |-> d[(i % 2) + 1]],
                                        own, other)
    /\ callerB \in RhsArrays(callerA.shape[1])
    /\ overwrite_a = FALSE
    /\ InitCommon

InitShapes ==
    /\ op \in {"forward", "backward", "gauss", "lu"}
    /\ callerA \in {Ramp(s) : s \in AShapes}
    /\ IF op = "lu"
       THEN callerB = NoArray /\ overwrite_a \in BOOLEAN
       ELSE callerB \in {Ramp(s) : s \in BShapes} /\ overwrite_a = FALSE
    /\ InitCommon

Init == InitLu \/ InitGauss \/ InitTri \/ InitShapes

NextLu == LuEnter \/ LuPivot \/ LuEliminate

NextGauss == GaussEnter \/ GaussPivot \/ GaussEliminate \/ GaussBackSubstitute

NextTri == ForwardSubstitution \/ BackwardSubstitution

Next == NextTri \/ NextGauss \/ NextLu

Spec == Init /\ [][Next]_vars

SpecLu == InitLu /\ [][NextLu]_vars

SpecGauss == InitGauss /\ [][NextGauss]_vars

SpecTri == InitTri /\ [][NextTri]_vars

SpecShapes == InitShapes /\ [][Next]_vars

(***************************************************************************)
(* Notions the properties are stated with.                                 *)
(***************************************************************************)
Idx == 0..(M - 1)

Finished == pc \in {"done", "error"}

\* the determinant, by expansion along the first row
RECURSIVE Det(_, _)
RECURSIVE DetTerms(_, _, _)
Minor(a, n, col) ==
    [i \in 0..(n - 2) |-> [j \in 0..(n - 2) |-> a[i + 1][IF j < col THEN j ELSE j + 1]]]

DetTerms(a, n, col) ==
    IF col >= n THEN Zero
    ELSE FAdd(FMul(IF col % 2 = 0 THEN a[0][col] ELSE Neg(a[0][col]),
                   Det(Minor(a, n, col), n - 1)),
              DetTerms(a, n, col + 1))

Det(a, n) == IF n = 0 THEN One ELSE DetTerms(a, n, 0)

SquareInput == Len(A0.shape) = 2 /\ A0.shape[1] = A0.shape[2]

FullRank == SquareInput /\ ~IsZero(Det(ToMatrix(A0), A0.shape[1]))

\* sum over j in lo..hi-1 of f[j]
RECURSIVE SumTo(_, _, _)
SumTo(f, lo, hi) == IF hi <= lo THEN Zero ELSE FAdd(SumTo(f, lo, hi - 1), f[hi - 1])

\* entry (i, c) of the product a * x of an (m, m) and an (m, K) matrix
ProductAt(a, x, m, i, c) == SumTo([j \in 0..(m - 1) |-> FMul(a[i][j], x[j][c])], 0, m)

IsPermutation(t, m) ==
    /\ DOMAIN t = 0..(m - 1)
    /\ \A i \in 0..(m - 1) : t[i] \in 0..(m - 1)
    /\ \A i, j \in 0..(m - 1) : t[i] = t[j] => i = j

\* the position at which tracker t holds label v
PositionOf(t, v) == CHOOSE i \in DOMAIN t : t[i] = v

Identity3 == Arange(3)

\* the tolerance of an approximate equality, 2^-40
Tol == <<1, <<1>>, -40>>

\* u and v differ by at most Tol
Close(u, v) ==
    LET d == FSub(u, v) IN ~IsNaN(d) /\ FLeq(FAbs(d), Tol)

\* u = v up to rounding, and exactly when no operation of the call has rounded
Agree(u, v) == Close(u, v) /\ (exact => FEq(u, v))

(***************************************************************************)
(* C1.  For a full-rank A, gauss_solve(A, b) returns x with A * x = b:     *)
(* entry x[i] is the unknown of original column i of A.  The equality is   *)
(* exact when no operation of the call has rounded, and within the         *)
(* tolerance otherwise.                                                    *)
(***************************************************************************)
GaussSolvesSystem ==
    (op = "gauss" /\ pc = "done" /\ FullRank)
        => \A i \in Idx : \A c \in 0..(B0.shape[2] - 1) :
              Agree(ProductAt(ToMatrix(A0), ToMatrix(res), M, i, c),
                    ToMatrix(B0)[i][c])

(***************************************************************************)
(* C2.  gauss_solve on a square full-rank A and a compatible b returns an  *)
(* x of the shape of b: 1-D of length M for a 1-D b, (M, K) for a 2-D b.   *)
(***************************************************************************)
GaussResultMatchesRhs ==
    (op = "gauss" /\ Finished /\ FullRank
        /\ Len(B0.shape) \in {1, 2} /\ B0.shape[1] = A0.shape[1])
        => (pc = "done" /\ res.shape = B0.shape)

(***************************************************************************)
(* C3.  For a full-rank A, lu_factor(A) returns (lu, pq) with              *)
(* A[p[i]][q[j]] = sum over k of L[i][k] * U[k][j], L the unit lower       *)
(* triangle of lu and U its upper triangle.  The equality is exact when no *)
(* operation of the call has rounded, and within the tolerance otherwise.  *)
(***************************************************************************)
LPart(lu, i, j) == IF j < i THEN lu[i][j] ELSE IF j = i THEN One ELSE Zero

UPart(lu, i, j) == IF j >= i THEN lu[i][j] ELSE Zero

LUProductAt(lu, m, i, j) ==
    SumTo([n \in 0..(m - 1) |-> FMul(LPart(lu, i, n), UPart(lu, n, j))], 0, m)

LuFactorizes ==
    (op = "lu" /\ pc = "done" /\ FullRank)
        => \A i, j \in Idx :
              Agree(ToMatrix(A0)[p_row[i]][q_col[j]],
                    LUProductAt(ToMatrix(res), M, i, j))

\* a factorization whose step 1 swapped rows carrying different multipliers
LuFactorizesWitness ==
    /\ op = "lu" /\ pc = "done" /\ FullRank /\ M = 3
    /\ p_row[1] # 1
    /\ q_col # Identity3
    /\ w[1][0] # w[2][0]
    /\ ~IsZero(w[1][0])
    /\ ~exact

(***************************************************************************)
(* C4.  In lu_factor and gauss_solve the row and the column tracker are    *)
(* the identity before the first pivot step and permutations of 0..M-1     *)
(* after every pivot step and at return.                                   *)
(***************************************************************************)
\* the states in which np.arange has created the trackers
TrackersExist ==
    /\ op \in {"lu", "gauss"}
    /\ \/ pc \in {"pivot", "elim", "backsub", "done"}
       \/ pc = "error" /\ err = "IndexError"

TrackersArePermutations ==
    TrackersExist
        => /\ IsPermutation(p_row, M)
           /\ IsPermutation(q_col, M)
           /\ (pc = "pivot" /\ k = 0) => (p_row = Arange(M) /\ q_col = Arange(M))

\* both trackers moved, the column tracker by a 3-cycle
TrackersWitness ==
    /\ op = "gauss" /\ pc = "done" /\ M = 3
    /\ p_row # Identity3
    /\ q_col[0] # 0 /\ q_col[1] # 1 /\ q_col[2] # 2

(***************************************************************************)
(* C5.  The caller's A and b hold their values from before the call in     *)
(* every routine, except A under lu_factor(A, overwrite_a=True).           *)
(***************************************************************************)
CallerBuffersUnchanged ==
    /\ callerB = B0
    /\ ~(op = "lu" /\ overwrite_a) => callerA = A0

\* lu_factor without overwrite has returned a buffer that differs from A
CallerBuffersWitness ==
    /\ op = "lu" /\ ~overwrite_a /\ pc = "done" /\ M = 3
    /\ res # A0
    /\ p_row # Identity3 /\ q_col # Identity3

(***************************************************************************)
(* C6.  gauss_solve and lu_factor on a square matrix of valid shape (and   *)
(* a 2-D b of M rows) never end in an error, singular or not.              *)
(***************************************************************************)
SingularNeverRaises ==
    (/\ op \in {"lu", "gauss"}
     /\ SquareInput
     /\ op = "gauss" => (Len(B0.shape) = 2 /\ B0.shape[1] = A0.shape[1]))
        => pc # "error"

(***************************************************************************)
(* C7.  A call whose A is not 2-dimensional or not square, or whose b is   *)
(* not 1- or 2-dimensional or has a leading dimension other than M, ends   *)
(* in ValueError with no buffer modified.                                  *)
(***************************************************************************)
InvalidInput ==
    \/ Len(A0.shape) # 2
    \/ A0.shape[1] # A0.shape[2]
    \/ /\ op # "lu"
       /\ \/ Len(B0.shape) \notin {1, 2}
          \/ B0.shape[1] # A0.shape[1]

InvalidInputRaisesValueError ==
    (InvalidInput /\ pc # "call")
        => (pc = "error" /\ err = "ValueError" /\ callerA = A0 /\ callerB = B0)

(***************************************************************************)
(* C8.  forward_substitution returns x[k] = (b[k] - sum over j < k of      *)
(* A[k][j] * x[j]) / A[k][k] and backward_substitution returns             *)
(* x[k] = (b[k] - sum over j > k of A[k][j] * x[j]) / A[k][k], whatever is *)
(* stored in the other triangle of A.                                      *)
(***************************************************************************)
RECURSIVE LowerSolution(_, _, _, _)
LowerSolution(a, b, r, c) ==
    FDiv(FSub(b[r][c],
              SumTo([j \in 0..(r - 1) |-> FMul(a[r][j], LowerSolution(a, b, j, c))],
                    0, r)),
         a[r][r])

RECURSIVE UpperSolution(_, _, _, _, _)
UpperSolution(a, b, m, r, c) ==
    FDiv(FSub(b[r][c],
              SumTo([j \in (r + 1)..(m - 1) |->
                        FMul(a[r][j], UpperSolution(a, b, m, j, c))],
                    r + 1, m)),
         a[r][r])

TriangularUsesOwnTriangle ==
    (op \in {"forward", "backward"} /\ pc = "done")
        => \A i \in 0..(A0.shape[1] - 1) : \A c \in 0..(RhsCols(B0) - 1) :
              RhsMatrix(res)[i][c] =
                  IF op = "forward"
                  THEN LowerSolution(ToMatrix(A0), RhsMatrix(B0), i, c)
                  ELSE UpperSolution(ToMatrix(A0), RhsMatrix(B0), A0.shape[1], i, c)

(***************************************************************************)
(* C9.  At every pivot step k of lu_factor and gauss_solve the pivot is    *)
(* the entry of largest absolute value among rows k..M-1 and coefficient   *)
(* columns k..M-1; after the swaps |w[k][k]| >= |w[i][j]| for i, j in      *)
(* k..M-1, and the multipliers of a nonzero pivot are at most 1 in         *)
(* absolute value.                                                         *)
(***************************************************************************)
Dominates(a, kk, m, v) ==
    \A ij \in Block(kk, m) :
        ~IsNaN(a[ij[1]][ij[2]]) /\ FLeq(FAbs(a[ij[1]][ij[2]]), FAbs(v))

PivotDominates ==
    (op \in {"lu", "gauss"} /\ pc = "elim") => Dominates(w, k, M, w[k][k])

MultipliersBounded ==
    TrackersExist
        => \A c \in 0..(k - 1) : \A i \in (c + 1)..(M - 1) :
              ~IsZero(w[c][c]) => (~IsNaN(w[i][c]) /\ FLeq(FAbs(w[i][c]), One))

\* the pivot of a step is an entry of the coefficient block the step found
PivotFromBlock ==
    (op \in {"lu", "gauss"} /\ pc = "pivot" /\ pc' = "elim")
        => /\ \E ij \in Block(k, M) : FAbs(w[ij[1]][ij[2]]) = FAbs(w'[k][k])
           /\ Dominates(w, k, M, w'[k][k])

PivotIsLargest == [](PivotDominates /\ MultipliersBounded) /\ [][PivotFromBlock]_vars

\* gauss_solve after step 1: the step swapped rows and columns, passed over a
\* larger right-hand side entry, and stored a multiplier that is a proper fraction
PivotIsLargestWitness ==
    /\ op = "gauss" /\ pc = "pivot" /\ k = 2 /\ M = 3
    /\ p_row[1] # 1 /\ q_col[1] # 1
    /\ ~FLeq(FAbs(w[1][3]), FAbs(w[1][1]))
    /\ ~IsZero(w[2][1]) /\ FAbs(w[2][1]) # One

(***************************************************************************)
(* C10.  lu_factor steps through k = 0, 1, ..., M-1 in increasing order    *)
(* without repeating a step and returns right after k = M-1; once step k   *)
(* has finished, later steps leave column k alone.                         *)
(***************************************************************************)
\* the order of the steps, the same in the claim and in its correction.  The
\* only other way out of a pivot step is the IndexError of a pivot search that
\* meets nan, which SingularNeverRaises (C6) reports
LuStepOrder ==
    op = "lu"
        => /\ k' \in {k, k + 1}
           /\ k' = k + 1 <=> pc = "elim"
           /\ pc = "pivot" => pc' \in {"elim", "error"}
           /\ pc = "elim" => pc' = (IF k + 1 = M THEN "done" ELSE "pivot")
           /\ pc' = "done" => k' = M

\* as claimed: no entry of a finished column changes
FinishedColumnsFrozen ==
    (op = "lu" /\ pc \in {"pivot", "elim"})
        => \A c \in 0..(k - 1) : \A i \in Idx : w'[i][c] = w[i][c]

FinishedColumnsFollowRows ==
    (op = "lu" /\ pc \in {"pivot", "elim"})
        => \A c \in 0..(k - 1) :
              /\ \A i \in Idx : w'[i][c] = w[PositionOf(p_row, p_row'[i])][c]
              /\ \A i \in 0..c : w'[i][c] = w[i][c]

=============================================================================
